---- MODULE Spec2Model ----
(***************************************************************************)
(* A model of the scoring core of football-odds-analyzer                   *)
(* (src/src/analyzer.py): the score-matrix builders, the historical        *)
(* blender, the market aggregator and the Kelly staking function.          *)
(*                                                                         *)
(* Numbers.  The code computes in IEEE doubles (numpy.float64 and Python   *)
(* float).  The model computes in exact extended rationals <<n, d>>,       *)
(* d >= 0, in lowest terms: d > 0 is the finite value n/d, <<1,0>> and     *)
(* <<-1,0>> are +inf and -inf, <<0,0>> is NaN.  numpy division follows     *)
(* IEEE (x/0 = +-inf, 0/0 = NaN, a RuntimeWarning and no exception);       *)
(* division of a Python float by zero raises ZeroDivisionError.  Rounding  *)
(* error of the doubles is not modelled.                                   *)
(***************************************************************************)
EXTENDS Integers, Sequences, FiniteSets, TLC

VARIABLES
    pc,                   \* position in the analysis: which operation ran last
    home_expected_goals,  \* builder input lambda_h
    away_expected_goals,  \* builder input lambda_a
    max_goals,            \* K: the grid is (K+1) x (K+1)
    rho,                  \* Dixon-Coles correlation parameter
    use_dixon_coles,      \* which builder produced prob_base
    prob_base,            \* the grid the builder returned
    historical_results,   \* sequence of <<gols_casa, gols_fora>>
    weight,               \* history weight
    freq_historica,       \* the blender's frequency grid
    prob_matrix,          \* the grid handed on to the aggregator
    market_probs,         \* the aggregator's mapping
    probability,          \* Kelly input p
    odd,                  \* Kelly input o
    fraction,             \* Kelly input fraction
    numpy_prob,           \* TRUE when p is a numpy.float64, FALSE a Python float
    kelly,                \* outcome of calculate_kelly_criterion
    expected_value,       \* outcome of calculate_expected_value
    n_scores,             \* how many scores the ranker is asked for
    top_scores,           \* the ranker's list of <<placar, prob>>
    market_odds,          \* the parsed odds, a sequence of <<market, odd>>
    kelly_fraction,       \* the fraction process_data passes to the Kelly function
    market_ev,            \* market -> expected value
    kelly_stakes,         \* market -> Kelly stake
    value_bets,           \* the markets the summary lists as value bets
    raised                \* the exception that ended the last operation, if any

vars == <<pc, home_expected_goals, away_expected_goals, max_goals, rho,
          use_dixon_coles, prob_base, historical_results, weight,
          freq_historica, prob_matrix, market_probs, probability, odd, fraction,
          numpy_prob, kelly, expected_value, n_scores, top_scores, market_odds, kelly_fraction,
          market_ev, kelly_stakes, value_bets, raised>>

-----------------------------------------------------------------------------
(* Extended rational arithmetic: what the float operators of the code do.   *)

Abs(n) == IF n < 0 THEN -n ELSE n

Sign(n) == IF n < 0 THEN -1 ELSE IF n = 0 THEN 0 ELSE 1

RECURSIVE Gcd(_, _)
Gcd(a, b) == IF b = 0 THEN a ELSE Gcd(b, a % b)

\* gcd used as a divisor: never 0
Gd(a, b) == IF Gcd(a, b) = 0 THEN 1 ELSE Gcd(a, b)

RNorm(n, d) ==
    IF d = 0 THEN <<Sign(n), 0>>
    ELSE LET g == Gd(Abs(n), Abs(d))
         IN  <<Sign(d) * (n \div g), Abs(d) \div g>>

Zero == <<0, 1>>
One == <<1, 1>>
NaN == <<0, 0>>

IsNaN(x) == x = NaN
IsFinite(x) == x[2] > 0

RNeg(x) == <<-x[1], x[2]>>

RAdd(x, y) ==
    IF x[2] = 0 /\ y[2] = 0 THEN (IF x = y THEN x ELSE NaN)
    ELSE IF x[2] = 0 THEN x
    ELSE IF y[2] = 0 THEN y
    ELSE LET g == Gd(x[2], y[2])
             l == (x[2] \div g) * y[2]
         IN  RNorm(x[1] * (l \div x[2]) + y[1] * (l \div y[2]), l)

RSub(x, y) == RAdd(x, RNeg(y))

RMul(x, y) ==
    LET g1 == Gd(Abs(x[1]), y[2])
        g2 == Gd(Abs(y[1]), x[2])
    IN  RNorm((x[1] \div g1) * (y[1] \div g2), (x[2] \div g2) * (y[2] \div g1))

\* 1/y in IEEE arithmetic: 1/0 = +inf, 1/inf = 0, 1/NaN = NaN
RInv(y) ==
    IF y[1] = 0 THEN (IF y[2] = 0 THEN NaN ELSE <<1, 0>>)
    ELSE IF y[1] < 0 THEN <<-y[2], -y[1]>>
    ELSE <<y[2], y[1]>>

RDiv(x, y) == RMul(x, RInv(y))

\* comparisons are false when an operand is NaN
RLe(x, y) ==
    /\ ~IsNaN(x)
    /\ ~IsNaN(y)
    /\ LET g == Gd(x[2], y[2])
       IN  x[1] * (y[2] \div g) <= y[1] * (x[2] \div g)

RLt(x, y) ==
    /\ ~IsNaN(x)
    /\ ~IsNaN(y)
    /\ LET g == Gd(x[2], y[2])
       IN  x[1] * (y[2] \div g) < y[1] * (x[2] \div g)

-----------------------------------------------------------------------------
(* Value/Staking engine                                                     *)

\* variant: the net expected profit per unit staked
ExpectedProfit(p, o) == RSub(RMul(p, o), One)

\* probabilidade * odd
calculate_expected_value(p, o) == RMul(p, o)

Returned(v) == [kind |-> "return", value |-> v]
Raised(e) == [kind |-> e, value |-> NaN]

\* variant: the stake without the division by (odd - 1)
KellyStakeEdgeOnly(edge, o, f) == RMul(edge, f)

\* edge / (odd - 1) * fraction, the tail of calculate_kelly_criterion
KellyStake(edge, o, f) == RMul(RDiv(edge, RSub(o, One)), f)

\* o is a Python float (float(...) of the odds text); p is a Python float or,
\* when it comes out of a grid, a numpy.float64 (np = TRUE).  Python float
\* division by zero raises; numpy.float64 division by zero gives inf or NaN.
calculate_kelly_criterion(p, o, f, np) ==
    IF o = Zero THEN Raised("ZeroDivisionError")              \* 1 / odd
    ELSE IF o = One /\ ~np THEN Raised("ZeroDivisionError")   \* ... / (odd - 1)
    ELSE LET edge == RDiv(RSub(RMul(p, o), One), RSub(o, One))
         IN  IF RLe(edge, Zero) THEN Returned(Zero)
             ELSE Returned(KellyStake(edge, o, f))

-----------------------------------------------------------------------------
(* Score grids: a DataFrame of shape (K+1, K+1) is a sequence of K+1 rows   *)
(* of K+1 cells; cell (i, j) is g[i+1][j+1].                                *)

Cell(g, i, j) == g[i + 1][j + 1]

\* s itself; TLC then holds the sequence as a tuple of values, not as a rule
Tup(s) == s \o <<>>

\* matriz_prob.shape[0] - 1
MaxGols(g) == Len(g) - 1

Cells(K) == (0 .. K) \X (0 .. K)

RECURSIVE SumSeq(_)
SumSeq(s) ==
    IF Len(s) = 0 THEN Zero
    ELSE RAdd(SumSeq(SubSeq(s, 1, Len(s) - 1)), s[Len(s)])

\* np.sum(grid)
GridSum(g) == SumSeq([i \in 1 .. Len(g) |-> SumSeq(g[i])])

\* grid / scalar and scalar * grid, elementwise
GridDiv(g, x) ==
    Tup([i \in 1 .. Len(g) |-> Tup([j \in 1 .. Len(g[i]) |-> RDiv(g[i][j], x)])])
GridScale(x, g) ==
    Tup([i \in 1 .. Len(g) |-> Tup([j \in 1 .. Len(g[i]) |-> RMul(x, g[i][j])])])
GridAdd(g, h) ==
    Tup([i \in 1 .. Len(g) |-> Tup([j \in 1 .. Len(g[i]) |-> RAdd(g[i][j], h[i][j])])])

\* np.zeros((K+1, K+1))
Zeros(K) == Tup([i \in 1 .. K + 1 |-> Tup([j \in 1 .. K + 1 |-> Zero])])

-----------------------------------------------------------------------------
(* ScoreMatrix builder                                                      *)

RECURSIVE Fact(_)
Fact(k) == IF k = 0 THEN 1 ELSE k * Fact(k - 1)

RECURSIVE RPow(_, _)
RPow(x, k) == IF k = 0 THEN One ELSE RMul(x, RPow(x, k - 1))

\* lam^k / k!
PoissonWeight(k, lam) == RDiv(RPow(lam, k), <<Fact(k), 1>>)

RECURSIVE ExpSeries(_, _)
ExpSeries(lam, m) ==
    IF m = 0 THEN One ELSE RAdd(ExpSeries(lam, m - 1), PoissonWeight(m, lam))

\* variant: no exponential factor
ExpNegOne(lam) == One

\* exp(-lam) to the precision of the model: 1 / (sum_{m<=4} lam^m/m! + r), r the
\* geometric bound lam^5/5! * 6/(6 - lam) of the series' tail (lam < 6).  The
\* value is a rational just below exp(-lam), as a double is a rational next to
\* it; exp(-0) = 1 exactly.
ExpNeg(lam) ==
    RInv(RAdd(ExpSeries(lam, 4),
              RMul(PoissonWeight(5, lam), RDiv(<<6, 1>>, RSub(<<6, 1>>, lam)))))

\* stats.poisson.pmf(k, lam): NaN for a negative rate
PoissonPmf(k, lam) ==
    IF RLt(lam, Zero) THEN NaN ELSE RMul(PoissonWeight(k, lam), ExpNeg(lam))

\* np.zeros((max_goals+1, max_goals+1)) raises ValueError for a negative
\* dimension; with max_goals = -1 the grid is empty
NegativeDimensions(K) == K + 1 < 0

\* variant: the Poisson grid divided by its sum
PoissonNormalized(lh, la, K) ==
    LET g == Tup([i \in 1 .. K + 1 |-> Tup([j \in 1 .. K + 1 |->
                 RMul(PoissonPmf(i - 1, lh), PoissonPmf(j - 1, la))])])
    IN  GridDiv(g, GridSum(g))

calculate_poisson_probabilities(lh, la, K) ==
    LET hp == [i \in 0 .. K |-> PoissonPmf(i, lh)]
        ap == [j \in 0 .. K |-> PoissonPmf(j, la)]
    IN  Tup([i \in 1 .. K + 1 |->
                Tup([j \in 1 .. K + 1 |-> RMul(hp[i - 1], ap[j - 1])])])

\* variant: the rates of the (0,1) and (1,0) corrections exchanged
tauSwapped(x, y, lambda_x, lambda_y, r) ==
    IF x = 0 /\ y = 0 THEN RSub(One, RMul(RMul(lambda_x, lambda_y), r))
    ELSE IF x = 0 /\ y = 1 THEN RAdd(One, RMul(lambda_y, r))
    ELSE IF x = 1 /\ y = 0 THEN RAdd(One, RMul(lambda_x, r))
    ELSE IF x = 1 /\ y = 1 THEN RSub(One, r)
    ELSE One

tau(x, y, lambda_x, lambda_y, r) ==
    IF x = 0 /\ y = 0 THEN RSub(One, RMul(RMul(lambda_x, lambda_y), r))
    ELSE IF x = 0 /\ y = 1 THEN RAdd(One, RMul(lambda_x, r))
    ELSE IF x = 1 /\ y = 0 THEN RAdd(One, RMul(lambda_y, r))
    ELSE IF x = 1 /\ y = 1 THEN RSub(One, r)
    ELSE One

\* the grid of dc_prob(i, j) before normalization
DcGrid(lh, la, K, r) ==
    LET hp == [i \in 0 .. K |-> PoissonPmf(i, lh)]
        ap == [j \in 0 .. K |-> PoissonPmf(j, la)]
    IN  Tup([i \in 1 .. K + 1 |-> Tup([j \in 1 .. K + 1 |->
            RMul(RMul(hp[i - 1], ap[j - 1]), tau(i - 1, j - 1, lh, la, r))])])

\* variant: the products returned as they are
NormalizeSkipped(g) == g

\* probabilidades / np.sum(probabilidades)
Normalize(g) == LET total == GridSum(g) IN GridDiv(g, total)

calculate_dixon_coles_matrix(lh, la, K, r) == Normalize(DcGrid(lh, la, K, r))

-----------------------------------------------------------------------------
(* Historical blender                                                       *)

\* variant: every out-of-range result goes to the corner cell
FreqCellCorner(gols_casa, gols_fora, K) ==
    IF gols_casa <= K /\ gols_fora <= K THEN <<gols_casa, gols_fora>> ELSE <<K, K>>

\* the cell one historical result increments (the if/elif chain)
FreqCell(gols_casa, gols_fora, K) ==
    IF gols_casa <= K /\ gols_fora <= K THEN <<gols_casa, gols_fora>>
    ELSE IF gols_casa > K /\ gols_fora <= K THEN <<K, gols_fora>>
    ELSE IF gols_casa <= K /\ gols_fora > K THEN <<gols_casa, K>>
    ELSE <<K, K>>

\* freq_historica[c] += 1
Increment(g, c) ==
    Tup([i \in 1 .. Len(g) |-> Tup([j \in 1 .. Len(g[i]) |->
        IF i = c[1] + 1 /\ j = c[2] + 1 THEN RAdd(g[i][j], One) ELSE g[i][j]])])

\* freq_historica after the first n results
RECURSIVE FreqHistorica(_, _, _)
FreqHistorica(results, n, K) ==
    IF n = 0 THEN Zeros(K)
    ELSE Increment(FreqHistorica(results, n - 1, K),
                   FreqCell(results[n][1], results[n][2], K))

\* variant: the counts, not divided by their sum
ProbHistoricaCounts(freq) == freq

\* prob_historica
ProbHistorica(freq) ==
    LET total == GridSum(freq)
    IN  IF RLt(Zero, total) THEN GridDiv(freq, total)
        ELSE Zeros(Len(freq) - 1)

\* variant: the two weights exchanged
BlendSwapped(base, hist, w) ==
    GridAdd(GridScale(w, base), GridScale(RSub(One, w), hist))

\* (1 - weight) * prob_base.values + weight * prob_historica
Blend(base, hist, w) ==
    GridAdd(GridScale(RSub(One, w), base), GridScale(w, hist))

\* variant: no final normalization
RenormalizeSkipped(g) == g

\* prob_ajustada / np.sum(prob_ajustada)
Renormalize(g) == LET total == GridSum(g) IN GridDiv(g, total)

adjust_probabilities_with_history(base, results, w, K) ==
    Renormalize(Blend(base, ProbHistorica(FreqHistorica(results, Len(results), K)), w))

\* variant: the result written into the buffer of prob_base
BaseOverwritten(base, prob_ajustada) == prob_ajustada

\* prob_base after the call: the blend only reads prob_base.values, and the
\* result goes into a new DataFrame
BaseAfterAdjust(base, prob_ajustada) == base

-----------------------------------------------------------------------------
(* Market aggregator                                                        *)

\* the sum of the cells of g in the set S, an accumulator of the single pass
RECURSIVE SumCells(_, _)
SumCells(g, S) ==
    IF S = {} THEN Zero
    ELSE LET c == CHOOSE c \in S : TRUE
         IN  RAdd(Cell(g, c[1], c[2]), SumCells(g, S \ {c}))

\* the over/under limits, as twice the limit, with the text of the key
Limites == {<<1, "0.5">>, <<3, "1.5">>, <<5, "2.5">>, <<7, "3.5">>, <<9, "4.5">>}

OverKey(l) == "Over " \o l[2]
UnderKey(l) == "Under " \o l[2]

MarketKeys ==
    {"1", "X", "2", "Ambas Marcam Sim", "Ambas Marcam Não"}
        \cup {OverKey(l) : l \in Limites} \cup {UnderKey(l) : l \in Limites}

\* variant: i >= j for the home win
HomeWinCellsWithDraws(K) == {c \in Cells(K) : c[1] >= c[2]}

\* the buckets of the result market: i > j, i == j, and the else branch
HomeWinCells(K) == {c \in Cells(K) : c[1] > c[2]}
DrawCells(K) == {c \in Cells(K) : c[1] = c[2]}
AwayWinCells(K) == {c \in Cells(K) : ~(c[1] > c[2]) /\ ~(c[1] = c[2])}

\* prob_over[limite]: cells with total_gols > limite
ProbOver(g, l) ==
    SumCells(g, {c \in Cells(MaxGols(g)) : 2 * (c[1] + c[2]) > l[1]})

\* variant: 'Under' accumulated over its own cells
ProbUnderAccumulated(g, l) ==
    SumCells(g, {c \in Cells(MaxGols(g)) : 2 * (c[1] + c[2]) < l[1]})

\* variant: the subtraction the other way round
ProbUnderReversed(g, l) == RSub(ProbOver(g, l), One)

\* probabilidades['Under ...'] = 1 - prob
ProbUnder(g, l) == RSub(One, ProbOver(g, l))

\* variant: a cell counts when either side scored
ProbAmbasMarcamEither(g) ==
    SumCells(g, {c \in Cells(MaxGols(g)) : c[1] > 0 \/ c[2] > 0})

\* prob_ambas_marcam
ProbAmbasMarcam(g) ==
    SumCells(g, {c \in Cells(MaxGols(g)) : c[1] > 0 /\ c[2] > 0})

\* variant: 'Ambas Marcam Não' accumulated over its own cells
ProbAmbasMarcamNaoAccumulated(g) ==
    SumCells(g, {c \in Cells(MaxGols(g)) : c[1] = 0 \/ c[2] = 0})

\* probabilidades['Ambas Marcam Não'] = 1 - prob_ambas_marcam
ProbAmbasMarcamNao(g) == RSub(One, ProbAmbasMarcam(g))

calculate_market_probabilities(g) ==
    LET K == MaxGols(g)
        prob_vitoria_casa == SumCells(g, HomeWinCells(K))
        prob_empate == SumCells(g, DrawCells(K))
        prob_vitoria_fora == SumCells(g, AwayWinCells(K))
    IN  [k \in MarketKeys |->
            IF k = "1" THEN prob_vitoria_casa
            ELSE IF k = "X" THEN prob_empate
            ELSE IF k = "2" THEN prob_vitoria_fora
            ELSE IF k = "Ambas Marcam Sim" THEN ProbAmbasMarcam(g)
            ELSE IF k = "Ambas Marcam Não" THEN ProbAmbasMarcamNao(g)
            ELSE IF \E l \in Limites : k = OverKey(l)
                 THEN ProbOver(g, CHOOSE l \in Limites : k = OverKey(l))
            ELSE ProbUnder(g, CHOOSE l \in Limites : k = UnderKey(l))]

-----------------------------------------------------------------------------
(* Score ranker                                                             *)

\* f"{i}-{j}"
Placar(i, j) == ToString(i) \o "-" \o ToString(j)

\* placares: one (placar, prob) per cell, appended row by row
Placares(g) ==
    LET rows == Len(g)                                  \* shape[0]
        cols == IF Len(g) = 0 THEN 0 ELSE Len(g[1])     \* shape[1]
    IN  Tup([k \in 1 .. rows * cols |->
            LET i == (k - 1) \div cols
                j == (k - 1) % cols
            IN  <<Placar(i, j), Cell(g, i, j)>>])

Reverse(s) == Tup([k \in 1 .. Len(s) |-> s[Len(s) + 1 - k]])

\* variant: x goes in front of the entries of equal key
InsertBeforeEqual(s, x) ==
    LET later == {k \in 1 .. Len(s) : RLe(x[2], s[k][2])}
        p == IF later = {} THEN Len(s)
             ELSE (CHOOSE k \in later : \A m \in later : k <= m) - 1
    IN  SubSeq(s, 1, p) \o <<x>> \o SubSeq(s, p + 1, Len(s))

\* one step of the insertion sort of list.sort: x goes in front of the first
\* entry whose key is greater, behind every entry of equal key
InsertSorted(s, x) ==
    LET later == {k \in 1 .. Len(s) : RLt(x[2], s[k][2])}
        p == IF later = {} THEN Len(s)
             ELSE (CHOOSE k \in later : \A m \in later : k <= m) - 1
    IN  SubSeq(s, 1, p) \o <<x>> \o SubSeq(s, p + 1, Len(s))

\* the stable ascending sort by x[1] of the code, the probability
RECURSIVE SortAscending(_)
SortAscending(s) ==
    IF Len(s) = 0 THEN <<>>
    ELSE InsertSorted(SortAscending(SubSeq(s, 1, Len(s) - 1)), s[Len(s)])

\* variant: sorted(placares, key=...)[::-1]
SortedThenReversed(s) == Reverse(SortAscending(s))

\* sorted(placares, key=lambda x: x[1], reverse=True): list.sort reverses the
\* list, sorts it ascending and stable, and reverses the result
SortedReverse(s) == Reverse(SortAscending(Reverse(s)))

\* variant: the whole list, whatever k
SliceWhole(s, k) == s

\* s[:k]
Slice(s, k) ==
    IF k >= 0 THEN SubSeq(s, 1, IF k < Len(s) THEN k ELSE Len(s))
    ELSE SubSeq(s, 1, IF Len(s) + k > 0 THEN Len(s) + k ELSE 0)

find_most_probable_scores(g, k) == Slice(SortedReverse(Placares(g)), k)

-----------------------------------------------------------------------------
(* Inputs of the staking engine                                             *)

Probabilities == {<<-1, 2>>, <<0, 1>>, <<3, 10>>, <<1, 2>>, <<3, 5>>, <<9, 10>>,
                  <<1, 1>>, <<3, 2>>}
Odds == {<<-1, 1>>, <<0, 1>>, <<1, 2>>, <<1, 1>>, <<3, 2>>, <<2, 1>>, <<3, 1>>}
Fractions == {<<1, 10>>, <<1, 2>>, <<1, 1>>}

None == "none"

-----------------------------------------------------------------------------
(* The stake loop of process_data and the value bets of the summary         *)

\* the cells the aggregator adds to the accumulator behind a market
MarketCells(K, market) ==
    IF market = "1" THEN HomeWinCells(K)
    ELSE IF market = "X" THEN DrawCells(K)
    ELSE IF market = "2" THEN AwayWinCells(K)
    ELSE IF market \in {"Ambas Marcam Sim", "Ambas Marcam Não"}
         THEN {c \in Cells(K) : c[1] > 0 /\ c[2] > 0}
    ELSE LET l == CHOOSE l \in Limites : market \in {OverKey(l), UnderKey(l)}
         IN  {c \in Cells(K) : 2 * (c[1] + c[2]) > l[1]}

\* an accumulator starts as the int 0 and is a numpy.float64 from the first
\* cell added to it; 1 - accumulator is of the accumulator's type
IsNumpyFloat(g, market) == MarketCells(MaxGols(g), market) # {}

EmptyDict == [m \in {} |-> Zero]

\* d[k] = v
DictSet(d, k, v) == [m \in DOMAIN d \cup {k} |-> IF m = k THEN v ELSE d[m]]

\* variant: a Kelly stake is kept only for the markets with EV above 1
StakeLoopValueOnly(mo, k, mp, g, f) ==
    LET markets == {mo[i][1] : i \in 1 .. k} \cap DOMAIN mp
        oddOf(m) == mo[CHOOSE i \in 1 .. k : mo[i][1] = m][2]
        ev == [m \in markets |-> calculate_expected_value(mp[m], oddOf(m))]
    IN  [market_ev |-> ev,
         kelly_stakes |->
             [m \in {x \in markets : RLt(One, ev[x])} |->
                 calculate_kelly_criterion(mp[m], oddOf(m), f, TRUE).value],
         raised |-> None]

\* the locals of process_data after the first k items of market_odds; an
\* exception of the Kelly function leaves the loop and process_data
RECURSIVE StakeLoop(_, _, _, _, _)
StakeLoop(mo, k, mp, g, f) ==
    IF k = 0
    THEN [market_ev |-> EmptyDict, kelly_stakes |-> EmptyDict, raised |-> None]
    ELSE LET before == StakeLoop(mo, k - 1, mp, g, f)
             market == mo[k][1]
             o == mo[k][2]
         IN  IF before.raised # None \/ market \notin DOMAIN mp THEN before
             ELSE LET prob == mp[market]
                      ev == calculate_expected_value(prob, o)
                      stake == calculate_kelly_criterion(prob, o, f,
                                                         IsNumpyFloat(g, market))
                  IN  IF stake.kind = "return"
                      THEN [market_ev |-> DictSet(before.market_ev, market, ev),
                            kelly_stakes |->
                                DictSet(before.kelly_stakes, market, stake.value),
                            raised |-> None]
                      ELSE [market_ev |-> DictSet(before.market_ev, market, ev),
                            kelly_stakes |-> before.kelly_stakes,
                            raised |-> stake.kind]

\* variant: an expected value of exactly 1 counts
IsValueBetOrEven(v) == RLe(One, v)

\* v > 1.0
IsValueBet(v) == RLt(One, v)

\* value_bets of display_summary_tab
ValueBets(ev) ==
    [m \in {k \in DOMAIN ev : IsValueBet(ev[k])} |-> ev[m]]

Init ==
    /\ pc = "start"
    /\ home_expected_goals = None
    /\ away_expected_goals = None
    /\ max_goals = None
    /\ rho = None
    /\ use_dixon_coles = None
    /\ prob_base = None
    /\ historical_results = None
    /\ weight = None
    /\ freq_historica = None
    /\ prob_matrix = None
    /\ market_probs = None
    /\ probability = None
    /\ odd = None
    /\ fraction = None
    /\ numpy_prob = None
    /\ kelly = None
    /\ expected_value = None
    /\ n_scores = None
    /\ top_scores = None
    /\ market_odds = None
    /\ kelly_fraction = None
    /\ market_ev = None
    /\ kelly_stakes = None
    /\ value_bets = None
    /\ raised = None

gridVars == <<home_expected_goals, away_expected_goals, max_goals, rho,
              use_dixon_coles, prob_base, historical_results, weight,
              freq_historica, prob_matrix, market_probs>>
rankVars == <<n_scores, top_scores>>
stakeVars == <<market_odds, kelly_fraction, market_ev, kelly_stakes, value_bets>>

\* one call of calculate_kelly_criterion(p, o, f); the variables hold the
\* arguments and the outcome of the last call only
CalculateKelly ==
    \E p \in Probabilities, o \in Odds, f \in Fractions, np \in BOOLEAN :
        /\ probability' = p
        /\ odd' = o
        /\ fraction' = f
        /\ numpy_prob' = np
        /\ kelly' = calculate_kelly_criterion(p, o, f, np)
        /\ expected_value' = None
        /\ pc' = "kelly"
        /\ UNCHANGED <<gridVars, rankVars, stakeVars, raised>>

\* one call of calculate_expected_value(p, o)
CalculateExpectedValue ==
    \E p \in Probabilities, o \in Odds :
        /\ probability' = p
        /\ odd' = o
        /\ expected_value' = Returned(calculate_expected_value(p, o))
        /\ fraction' = None
        /\ numpy_prob' = None
        /\ kelly' = None
        /\ pc' = "ev"
        /\ UNCHANGED <<gridVars, rankVars, stakeVars, raised>>

-----------------------------------------------------------------------------
(* Inputs of the builders and of the blender                                *)

MaxGoals == 2
MaxHist == 2

\* expected-goal rates of the builders called on their own
Lambdas == {<<0, 1>>, <<1, 2>>, <<1, 1>>, <<3, 2>>, <<2, 1>>}
Rhos == {<<-1, 5>>, <<-1, 10>>, <<0, 1>>, <<1, 2>>}

\* the builders take any number as a rate and any integer as max_goals: beyond
\* the pairs of Lambdas, a rate above 1/|rho|, negative rates, and sizes from -2
HighRates == {<<<<11, 2>>, <<2, 1>>>>, <<<<2, 1>>, <<11, 2>>>>}
NegativeRates == {<<<<-1, 1>>, <<1, 1>>>>, <<<<1, 1>>, <<-1, 2>>>>}
RatePairs == (Lambdas \X Lambdas) \cup HighRates \cup NegativeRates
Sizes == -2 .. MaxGoals

\* (lambda_h, lambda_a) handed to the builder by process_data
ExpectedGoals ==
    {<<<<3, 2>>, <<1, 1>>>>, <<<<0, 1>>, <<0, 1>>>>, <<<<1, 1>>, <<2, 1>>>>,
     <<<<0, 1>>, <<1, 1>>>>}

\* rho = -0.1, as process_data passes it
DefaultRho == <<-1, 10>>

Results == {<<0, 0>>, <<1, 1>>, <<4, 1>>, <<2, 4>>, <<4, 4>>}

RECURSIVE SeqsUpTo(_, _)
SeqsUpTo(S, n) ==
    IF n = 0 THEN {<<>>}
    ELSE LET shorter == SeqsUpTo(S, n - 1)
         IN  shorter \cup {Append(q, x) : q \in shorter, x \in S}

Histories == SeqsUpTo(Results, MaxHist)

Weights == {<<0, 1>>, <<3, 10>>, <<1, 1>>}

kellyVars == <<probability, odd, fraction, numpy_prob, kelly, expected_value>>
blendVars == <<historical_results, weight, freq_historica>>

\* calculate_poisson_probabilities(lh, la, max_goals=K)
BuildPoisson(lh, la, K) ==
    /\ pc = "start"
    /\ home_expected_goals' = lh
    /\ away_expected_goals' = la
    /\ max_goals' = K
    /\ use_dixon_coles' = FALSE
    /\ IF NegativeDimensions(K)
       THEN /\ raised' = "ValueError"
            /\ pc' = "failed"
            /\ UNCHANGED <<prob_base, prob_matrix>>
       ELSE /\ prob_base' = calculate_poisson_probabilities(lh, la, K)
            /\ prob_matrix' = prob_base'
            /\ pc' = "built"
            /\ UNCHANGED raised
    /\ UNCHANGED <<rho, blendVars, market_probs, kellyVars, rankVars, stakeVars>>

\* calculate_dixon_coles_matrix(lh, la, max_goals=K, rho=r)
BuildDixonColes(lh, la, K, r) ==
    /\ pc = "start"
    /\ home_expected_goals' = lh
    /\ away_expected_goals' = la
    /\ max_goals' = K
    /\ rho' = r
    /\ use_dixon_coles' = TRUE
    /\ IF NegativeDimensions(K)
       THEN /\ raised' = "ValueError"
            /\ pc' = "failed"
            /\ UNCHANGED <<prob_base, prob_matrix>>
       ELSE /\ prob_base' = calculate_dixon_coles_matrix(lh, la, K, r)
            /\ prob_matrix' = prob_base'
            /\ pc' = "built"
            /\ UNCHANGED raised
    /\ UNCHANGED <<blendVars, market_probs, kellyVars, rankVars, stakeVars>>

\* prob_matrix = adjust_probabilities_with_history(prob_matrix, results, w, max_goals)
AdjustWithHistory(results, w) ==
    /\ pc = "built"
    /\ historical_results' = results
    /\ weight' = w
    /\ freq_historica' = FreqHistorica(results, Len(results), max_goals)
    /\ prob_matrix' = adjust_probabilities_with_history(prob_matrix, results, w, max_goals)
    /\ prob_base' = BaseAfterAdjust(prob_base, prob_matrix')
    /\ pc' = "adjusted"
    /\ UNCHANGED <<home_expected_goals, away_expected_goals, max_goals, rho,
                   use_dixon_coles, market_probs, kellyVars, rankVars,
                   stakeVars, raised>>

\* market_probs = calculate_market_probabilities(prob_matrix)
CalculateMarkets ==
    /\ pc \in {"built", "adjusted"}
    /\ market_probs' = calculate_market_probabilities(prob_matrix)
    /\ pc' = "markets"
    /\ UNCHANGED <<home_expected_goals, away_expected_goals, max_goals, rho,
                   use_dixon_coles, prob_base, blendVars, prob_matrix, kellyVars,
                   rankVars, stakeVars, raised>>

\* top_scores = find_most_probable_scores(prob_matrix, n=k)
FindScores(k) ==
    /\ n_scores' = k
    /\ top_scores' = find_most_probable_scores(prob_matrix, k)
    /\ pc' = "scores"
    /\ UNCHANGED <<gridVars, kellyVars, stakeVars, raised>>

\* the stake loop of process_data over the parsed odds
CalculateStakes(mo, f) ==
    /\ pc = "scores"
    /\ market_odds' = mo
    /\ kelly_fraction' = f
    /\ LET out == StakeLoop(mo, Len(mo), market_probs, prob_matrix, f)
       IN  /\ market_ev' = out.market_ev
           /\ kelly_stakes' = out.kelly_stakes
           /\ raised' = out.raised
           /\ pc' = IF out.raised = None THEN "stakes" ELSE "failed"
    /\ UNCHANGED <<gridVars, kellyVars, rankVars, value_bets>>

\* display_summary_tab: the value bets of the results
DisplaySummary ==
    /\ pc = "stakes"
    /\ value_bets' = ValueBets(market_ev)
    /\ pc' = "summary"
    /\ UNCHANGED <<gridVars, kellyVars, rankVars, market_odds, kelly_fraction,
                   market_ev, kelly_stakes, raised>>

\* the builders called on their own, with any rates, size and rho
BuilderPoisson ==
    \E lp \in RatePairs, K \in Sizes : BuildPoisson(lp[1], lp[2], K)

BuilderDixonColes ==
    \E lp \in RatePairs, K \in Sizes, r \in Rhos :
        BuildDixonColes(lp[1], lp[2], K, r)

\* process_data: the builder chosen by use_dixon_coles
PipelinePoisson ==
    \E eg \in ExpectedGoals, K \in 0 .. MaxGoals : BuildPoisson(eg[1], eg[2], K)

PipelineDixonColes ==
    \E eg \in ExpectedGoals, K \in 0 .. MaxGoals :
        BuildDixonColes(eg[1], eg[2], K, DefaultRho)

\* the blender called on its own, with any history and weight
BlenderAdjust ==
    /\ pc = "built"
    /\ \E results \in Histories, w \in Weights : AdjustWithHistory(results, w)

\* process_data: the blender runs when match_results was parsed, and the parser
\* returns no match_results for an empty list of matches
PipelineAdjust ==
    /\ pc = "built"
    /\ \E results \in Histories, w \in Weights :
           /\ Len(results) > 0
           /\ AdjustWithHistory(results, w)

\* max_goals=5, the default of the builders
DefaultMaxGoals == 5

\* calculate_poisson_probabilities(1.5, 1.0)
BuildDefaultPoisson == BuildPoisson(<<3, 2>>, <<1, 1>>, DefaultMaxGoals)

\* the values of n the ranker is called with; process_data passes 10
Counts == {0, 2, 10, 40}
TopN == 10

\* the ranker called on its own, on a grid of a builder or of the blender
RankerScores ==
    /\ pc \in {"built", "adjusted"}
    /\ \E k \in Counts : FindScores(k)

\* process_data: the ranker runs after the aggregator
PipelineScores ==
    /\ pc = "markets"
    /\ FindScores(TopN)

\* market_odds as process_odds_text returns it: any text as a market, any float
\* as an odd, in the order of the lines
OddsTables ==
    {<<<<"1", <<2, 1>>>>, <<"X", <<3, 1>>>>, <<"Handicap", <<2, 1>>>>>>,
     <<<<"Over 2.5", <<1, 2>>>>, <<"1", <<1, 1>>>>, <<"Under 2.5", <<3, 1>>>>>>,
     <<<<"X", <<2, 1>>>>, <<"2", <<0, 1>>>>, <<"1", <<3, 1>>>>>>}

\* kelly_fraction=0.5, the default of process_data
DefaultKellyFraction == <<1, 2>>

PipelineStakes == \E mo \in OddsTables : CalculateStakes(mo, DefaultKellyFraction)

\* the histories of the analyses followed to their end: parsed, so not empty
ParsedResults == {<<0, 0>>, <<4, 1>>, <<2, 4>>}
ParsedHistories == SeqsUpTo(ParsedResults, MaxHist) \ {<<>>}

AnalysisAdjust ==
    /\ pc = "built"
    /\ \E results \in ParsedHistories, w \in Weights : AdjustWithHistory(results, w)

\* the ranker and the aggregator called in the other order on the same grid
RankerFirst ==
    /\ pc \in {"built", "adjusted"}
    /\ n_scores' = TopN
    /\ top_scores' = find_most_probable_scores(prob_matrix, TopN)
    /\ pc' = "ranked"
    /\ UNCHANGED <<gridVars, kellyVars, stakeVars, raised>>

AggregatorSecond ==
    /\ pc = "ranked"
    /\ market_probs' = calculate_market_probabilities(prob_matrix)
    /\ pc' = "scores"
    /\ UNCHANGED <<home_expected_goals, away_expected_goals, max_goals, rho,
                   use_dixon_coles, prob_base, blendVars, prob_matrix, kellyVars,
                   rankVars, stakeVars, raised>>

NextKelly == CalculateKelly \/ CalculateExpectedValue

SpecKelly == Init /\ [][NextKelly]_vars

NextBuilder == BuilderPoisson \/ BuilderDixonColes

SpecBuilder == Init /\ [][NextBuilder]_vars

NextBlend == PipelinePoisson \/ PipelineDixonColes \/ BlenderAdjust

SpecBlend == Init /\ [][NextBlend]_vars

NextRanker ==
    \/ PipelinePoisson
    \/ PipelineDixonColes
    \/ BuildDefaultPoisson
    \/ AnalysisAdjust
    \/ RankerScores

SpecRanker == Init /\ [][NextRanker]_vars

\* process_data up to the aggregator
Next == PipelinePoisson \/ PipelineDixonColes \/ PipelineAdjust \/ CalculateMarkets

Spec == Init /\ [][Next]_vars

\* the analysis up to the ranker, with the aggregator and the ranker in both
\* orders
NextOrder ==
    \/ PipelinePoisson
    \/ PipelineDixonColes
    \/ AnalysisAdjust
    \/ CalculateMarkets
    \/ PipelineScores
    \/ RankerFirst
    \/ AggregatorSecond

SpecOrder == Init /\ [][NextOrder]_vars

\* process_data to its end, and the summary of its results
NextPipeline ==
    \/ PipelinePoisson
    \/ PipelineDixonColes
    \/ AnalysisAdjust
    \/ CalculateMarkets
    \/ PipelineScores
    \/ PipelineStakes
    \/ DisplaySummary

SpecPipeline == Init /\ [][NextPipeline]_vars

-----------------------------------------------------------------------------
(* Properties of the staking engine, under SpecKelly                        *)

Half == <<1, 2>>
Two == <<2, 1>>

\* a call with p in [0,1], o > 1 and fraction in (0,1]
KellyValid ==
    /\ pc = "kelly"
    /\ RLe(Zero, probability) /\ RLe(probability, One)
    /\ RLt(One, odd)
    /\ RLt(Zero, fraction) /\ RLe(fraction, One)

\* C1: for p in [0,1], o > 1 and fraction in (0,1], with e = (p*o - 1)/(o - 1),
\* calculate_kelly_criterion returns 0 when e <= 0 and e/(o - 1)*fraction
\* otherwise; (0.6, 2, 1) gives 0.2, (0.6, 2, 0.5) gives 0.1 and (0.3, 2, any
\* fraction) gives 0.
C1_KellyFormula ==
    KellyValid =>
        LET e == RDiv(RSub(RMul(probability, odd), One), RSub(odd, One))
        IN  /\ kelly.kind = "return"
            /\ RLe(e, Zero) => kelly.value = Zero
            /\ ~RLe(e, Zero) =>
                   kelly.value = RMul(RDiv(e, RSub(odd, One)), fraction)
            /\ (probability = <<3, 5>> /\ odd = Two /\ fraction = One)
                   => kelly.value = <<1, 5>>
            /\ (probability = <<3, 5>> /\ odd = Two /\ fraction = Half)
                   => kelly.value = <<1, 10>>
            /\ (probability = <<3, 10>> /\ odd = Two) => kelly.value = Zero

C1_Witness ==
    /\ KellyValid
    /\ probability = <<3, 5>> /\ odd = <<3, 1>> /\ fraction = Half
    /\ kelly = Returned(<<1, 10>>)

\* C2: for every odd o <= 1 the Kelly computation fails with InvalidOdd: no
\* raw division by zero and no numeric stake.
C2_InvalidOdd ==
    (pc = "kelly" /\ RLe(odd, One)) => kelly.kind = "InvalidOdd"

-----------------------------------------------------------------------------
(* Properties of the builders, under SpecBuilder                            *)

-----------------------------------------------------------------------------
(* Properties of the blender, under SpecBlend                               *)

Min(a, b) == IF a <= b THEN a ELSE b

\* how many of the results fall, clamped at K, on cell (i, j)
ClampedCount(results, K, i, j) ==
    Cardinality({n \in 1 .. Len(results) :
                    Min(results[n][1], K) = i /\ Min(results[n][2], K) = j})

\* the normalized empirical frequency grid of a non-empty history
EmpiricalGrid(results, K) ==
    Tup([i \in 1 .. K + 1 |-> Tup([j \in 1 .. K + 1 |->
        RNorm(ClampedCount(results, K, i - 1, j - 1), Len(results))])])

Mass(g) == GridSum(g)

Adjusted == pc = "adjusted"

\* C4: for a base grid of positive mass, a non-empty history and w in [0,1]
\* the blender returns ((1 - w)*base + w*frequency) divided by its own sum, and
\* the returned cells sum to 1.
C4_BlendNormalized ==
    (Adjusted /\ Len(historical_results) > 0 /\ RLt(Zero, Mass(prob_base))) =>
        LET mixed == GridAdd(GridScale(RSub(One, weight), prob_base),
                             GridScale(weight,
                                       EmpiricalGrid(historical_results, max_goals)))
            total == Mass(mixed)
        IN  /\ \A c \in Cells(max_goals) :
                   RMul(Cell(prob_matrix, c[1], c[2]), total)
                       = Cell(mixed, c[1], c[2])
            /\ Mass(prob_matrix) = One

C4_Witness ==
    /\ Adjusted
    /\ Len(historical_results) = 2
    /\ ~use_dixon_coles
    /\ RLt(Zero, Mass(prob_base)) /\ RLt(Mass(prob_base), One)
    /\ weight = <<3, 10>>
    /\ Mass(prob_matrix) = One

\* C5: with an empty history the blender returns, for every w in [0,1], w = 1
\* included, the base grid renormalized to sum 1; never an undefined grid.
C5_EmptyHistoryDegrades ==
    (Adjusted /\ Len(historical_results) = 0) =>
        LET mass == Mass(prob_base)
        IN  /\ \A c \in Cells(max_goals) :
                   /\ IsFinite(Cell(prob_matrix, c[1], c[2]))
                   /\ RMul(Cell(prob_matrix, c[1], c[2]), mass)
                          = Cell(prob_base, c[1], c[2])
            /\ Mass(prob_matrix) = One

\* C6, as claimed: with weight 0 the blender returns the base grid unchanged,
\* cell for cell, for the Dixon-Coles grid and for the Poisson grid of mass < 1.
C6_WeightZeroUnchanged ==
    (Adjusted /\ weight = Zero) => prob_matrix = prob_base

\* C6, amended: with weight 0 the blender returns the base grid divided by its
\* mass, whatever the history: every cell times the base's mass is the base's
\* cell, the result sums to 1, and it is the base grid itself exactly when the
\* base's mass is 1 (every Dixon-Coles grid).
C6_WeightZeroRenormalized ==
    (Adjusted /\ weight = Zero) =>
        LET mass == Mass(prob_base)
        IN  /\ \A c \in Cells(max_goals) :
                   RMul(Cell(prob_matrix, c[1], c[2]), mass)
                       = Cell(prob_base, c[1], c[2])
            /\ Mass(prob_matrix) = One
            /\ (prob_matrix = prob_base) <=> (mass = One)
            /\ use_dixon_coles => prob_matrix = prob_base

C6_Witness ==
    /\ Adjusted /\ weight = Zero
    /\ ~use_dixon_coles
    /\ Len(historical_results) > 0
    /\ RLt(Mass(prob_base), One)
    /\ prob_matrix # prob_base
    /\ Mass(prob_matrix) = One

\* C7: with weight 1 and a non-empty history the blender returns the normalized
\* empirical frequency grid (clamped count over number of results), whatever
\* the base grid.
C7_WeightOneEmpirical ==
    (Adjusted /\ weight = One /\ Len(historical_results) > 0) =>
        prob_matrix = EmpiricalGrid(historical_results, max_goals)

C7_Witness ==
    /\ Adjusted /\ weight = One
    /\ historical_results = <<<<4, 1>>, <<0, 0>>>>
    /\ max_goals = 2
    /\ Cell(prob_matrix, 2, 1) = Half
    /\ Cell(prob_matrix, 0, 0) = Half

\* C8: every historical result (h, a) increments exactly the cell
\* (min(h, K), min(a, K)) of the frequency grid by 1, so the grid's total count
\* is the number of results.
C8_FrequencyClamped ==
    Adjusted =>
        /\ \A c \in Cells(max_goals) :
               Cell(freq_historica, c[1], c[2])
                   = <<ClampedCount(historical_results, max_goals, c[1], c[2]), 1>>
        /\ GridSum(freq_historica) = <<Len(historical_results), 1>>

C8_Witness ==
    /\ Adjusted
    /\ max_goals = 2
    /\ historical_results = <<<<4, 1>>, <<2, 4>>>>
    /\ Cell(freq_historica, 2, 1) = One
    /\ Cell(freq_historica, 2, 2) = One

-----------------------------------------------------------------------------
(* Properties of the aggregator, under Spec                                 *)

\* C9: '1' + 'X' + '2' equals the grid's total mass, below 1 for an
\* unnormalized Poisson grid: every cell is in exactly one result bucket.
C9_ResultMarketsSumToMass ==
    pc = "markets" =>
        RAdd(RAdd(market_probs["1"], market_probs["X"]), market_probs["2"])
            = Mass(prob_matrix)

C9_Witness ==
    /\ pc = "markets"
    /\ ~use_dixon_coles /\ prob_matrix = prob_base /\ max_goals = 2
    /\ RLt(Mass(prob_matrix), One)
    /\ RLt(Zero, market_probs["2"])
    /\ RAdd(RAdd(market_probs["1"], market_probs["X"]), market_probs["2"])
           = Mass(prob_matrix)

\* C10: for every threshold L, 'Over L' + 'Under L' is exactly 1, also when the
\* grid's mass is below 1.
C10_OverUnderSumToOne ==
    pc = "markets" =>
        \A l \in Limites :
            RAdd(market_probs[OverKey(l)], market_probs[UnderKey(l)]) = One

C10_Witness ==
    /\ pc = "markets"
    /\ ~use_dixon_coles /\ prob_matrix = prob_base /\ max_goals = 2
    /\ RLt(Mass(prob_matrix), One)
    /\ RLt(Zero, market_probs["Over 2.5"])
    /\ RLt(market_probs["Over 2.5"], market_probs["Over 1.5"])
    /\ RAdd(market_probs["Over 2.5"], market_probs["Under 2.5"]) = One

\* the mass of the cells (i, j) of g that satisfy P
MaskedMass(g, P(_, _)) ==
    GridSum([i \in 1 .. Len(g) |-> [j \in 1 .. Len(g[i]) |->
        IF P(i - 1, j - 1) THEN g[i][j] ELSE Zero]])

\* C11: the aggregator's mapping has exactly the keys '1', 'X', '2', 'Over L'
\* and 'Under L' for L in {0.5, 1.5, 2.5, 3.5, 4.5}, 'Ambas Marcam Sim' and
\* 'Ambas Marcam Não'; 'Over L' is the sum of the cells with i + j > L,
\* 'Ambas Marcam Sim' the sum of the cells with i > 0 and j > 0, and
\* 'Ambas Marcam Não' is 1 minus that sum.
C11_MarketMapping ==
    pc = "markets" =>
        /\ DOMAIN market_probs =
               {"1", "X", "2", "Over 0.5", "Under 0.5", "Over 1.5", "Under 1.5",
                "Over 2.5", "Under 2.5", "Over 3.5", "Under 3.5", "Over 4.5",
                "Under 4.5", "Ambas Marcam Sim", "Ambas Marcam Não"}
        /\ \A l \in {<<1, "Over 0.5">>, <<3, "Over 1.5">>, <<5, "Over 2.5">>,
                      <<7, "Over 3.5">>, <<9, "Over 4.5">>} :
               market_probs[l[2]]
                   = MaskedMass(prob_matrix, LAMBDA i, j : 2 * (i + j) > l[1])
        /\ market_probs["Ambas Marcam Sim"]
               = MaskedMass(prob_matrix, LAMBDA i, j : i > 0 /\ j > 0)
        /\ market_probs["Ambas Marcam Não"]
               = RSub(One, MaskedMass(prob_matrix, LAMBDA i, j : i > 0 /\ j > 0))

C11_Witness ==
    /\ pc = "markets"
    /\ max_goals = 2
    /\ RLt(Zero, market_probs["Ambas Marcam Sim"])
    /\ RLt(market_probs["Ambas Marcam Sim"], market_probs["Over 1.5"])
    /\ RLt(Zero, market_probs["Over 3.5"])
    /\ market_probs["Over 4.5"] = Zero
    /\ market_probs["Ambas Marcam Não"]
           = RSub(One, market_probs["Ambas Marcam Sim"])

-----------------------------------------------------------------------------
(* Properties of the ranker, under SpecRanker                               *)

\* the position of the cell labelled placar in the row-by-row traversal
RowMajor(K, placar) ==
    LET c == CHOOSE c \in Cells(K) : Placar(c[1], c[2]) = placar
    IN  c[1] * (K + 1) + c[2]

\* C12: the ranker's list is non-increasing in probability, and entries of
\* equal probability appear in the grid's row-major order (i ascending, then j
\* ascending).
C12_SortedStable ==
    pc = "scores" =>
        \A k \in 1 .. Len(top_scores) - 1 :
            /\ RLe(top_scores[k + 1][2], top_scores[k][2])
            /\ top_scores[k + 1][2] = top_scores[k][2] =>
                   RowMajor(max_goals, top_scores[k][1])
                       < RowMajor(max_goals, top_scores[k + 1][1])

C12_Witness ==
    /\ pc = "scores"
    /\ max_goals = 2
    /\ Len(top_scores) = 9
    /\ top_scores[1] = <<"0-0", Half>> /\ top_scores[2] = <<"2-1", Half>>
    /\ top_scores[3] = <<"0-1", Zero>> /\ top_scores[9] = <<"2-2", Zero>>

\* C13: for a (K+1) x (K+1) grid and N >= 0 the ranker returns exactly
\* min(N, (K+1)^2) entries, each a distinct cell labelled 'i-j' with that
\* cell's probability; with N above the number of cells it returns them all.
C13_LengthIsMin ==
    (pc = "scores" /\ n_scores >= 0) =>
        /\ Len(top_scores) = Min(n_scores, (max_goals + 1) * (max_goals + 1))
        /\ \A k \in 1 .. Len(top_scores) :
               \E c \in Cells(max_goals) :
                   top_scores[k] = <<Placar(c[1], c[2]), Cell(prob_matrix, c[1], c[2])>>
        /\ \A k, m \in 1 .. Len(top_scores) :
               k # m => top_scores[k][1] # top_scores[m][1]

C13_Witness ==
    /\ pc = "scores"
    /\ max_goals = 5 /\ n_scores = 40
    /\ Len(top_scores) = 36
    /\ top_scores[36][1] = "5-5"

\* C14: in the Poisson grid of lambda_h = 1.5, lambda_a = 1.0, K = 5 the cells
\* (1,0) and (1,1) have the same probability, the largest of the grid, and the
\* ranker lists '1-0' first and '1-1' second.
C14_DefaultGridTie ==
    (/\ pc = "scores"
     /\ ~use_dixon_coles /\ prob_matrix = prob_base
     /\ home_expected_goals = <<3, 2>> /\ away_expected_goals = One
     /\ max_goals = 5 /\ n_scores >= 2) =>
        /\ Cell(prob_base, 1, 0) = Cell(prob_base, 1, 1)
        /\ \A c \in Cells(5) :
               RLe(Cell(prob_base, c[1], c[2]), Cell(prob_base, 1, 0))
        /\ top_scores[1] = <<"1-0", Cell(prob_base, 1, 0)>>
        /\ top_scores[2] = <<"1-1", Cell(prob_base, 1, 1)>>

C14_Witness ==
    /\ pc = "scores"
    /\ ~use_dixon_coles /\ prob_matrix = prob_base
    /\ home_expected_goals = <<3, 2>> /\ away_expected_goals = One
    /\ max_goals = 5 /\ n_scores = 2
    /\ Len(top_scores) = 2
    /\ top_scores[1][1] = "1-0" /\ top_scores[2][1] = "1-1"
    /\ top_scores[1][2] = top_scores[2][2]

-----------------------------------------------------------------------------
(* Further properties of the builders, under SpecBuilder                    *)

\* a builder returned a grid for rates >= 0 and K >= 0
BuiltValid ==
    /\ pc = "built"
    /\ RLe(Zero, home_expected_goals) /\ RLe(Zero, away_expected_goals)
    /\ max_goals >= 0

\* C15: a Dixon-Coles cell is PoissonPMF(i; lambda_h) * PoissonPMF(j; lambda_a)
\* * tau(i,j) divided by the sum of these products over the grid, with tau(0,0)
\* = 1 - lambda_h*lambda_a*rho, tau(0,1) = 1 + lambda_h*rho, tau(1,0) = 1 +
\* lambda_a*rho, tau(1,1) = 1 - rho and tau = 1 elsewhere (i home, j away).
C15_DixonColesCell ==
    (BuiltValid /\ use_dixon_coles) =>
        LET lh == home_expected_goals
            la == away_expected_goals
            t(i, j) ==
                IF <<i, j>> = <<0, 0>> THEN RSub(One, RMul(RMul(lh, la), rho))
                ELSE IF <<i, j>> = <<0, 1>> THEN RAdd(One, RMul(lh, rho))
                ELSE IF <<i, j>> = <<1, 0>> THEN RAdd(One, RMul(la, rho))
                ELSE IF <<i, j>> = <<1, 1>> THEN RSub(One, rho)
                ELSE One
            hp == Tup([i \in 1 .. max_goals + 1 |-> PoissonPmf(i - 1, lh)])
            ap == Tup([j \in 1 .. max_goals + 1 |-> PoissonPmf(j - 1, la)])
            raw == Tup([i \in 1 .. max_goals + 1 |-> Tup([j \in 1 .. max_goals + 1 |->
                       RMul(RMul(hp[i], ap[j]), t(i - 1, j - 1))])])
        IN  prob_base = GridDiv(raw, GridSum(raw))

C15_Witness ==
    /\ BuiltValid /\ use_dixon_coles
    /\ home_expected_goals = Two /\ away_expected_goals = One
    /\ rho = <<-1, 10>> /\ max_goals = 2
    /\ GridSum(prob_base) = One
    /\ RMul(Cell(prob_base, 0, 1), <<9, 1>>) = RMul(Cell(prob_base, 1, 0), <<4, 1>>)

\* C16: for lambda_h, lambda_a >= 0, K >= 0 and rho in [-0.2, 0] every cell of
\* the grid calculate_dixon_coles_matrix returns is >= 0.
C16_CellsNonNegative ==
    (/\ BuiltValid /\ use_dixon_coles
     /\ RLe(<<-1, 5>>, rho) /\ RLe(rho, Zero)) =>
        \A c \in Cells(max_goals) : RLe(Zero, Cell(prob_base, c[1], c[2]))

\* C17: for lambda_h, lambda_a >= 0 and K >= 0 every cell of the Poisson grid
\* is >= 0 and the cells sum to at most 1.
C17_PoissonBounded ==
    (BuiltValid /\ ~use_dixon_coles) =>
        /\ \A c \in Cells(max_goals) : RLe(Zero, Cell(prob_base, c[1], c[2]))
        /\ RLe(GridSum(prob_base), One)

C17_Witness ==
    /\ BuiltValid /\ ~use_dixon_coles
    /\ max_goals = 2
    /\ home_expected_goals = <<11, 2>> /\ away_expected_goals = Two
    /\ RLt(Zero, Cell(prob_base, 2, 2))
    /\ RLt(Zero, GridSum(prob_base)) /\ RLt(GridSum(prob_base), One)

\* C18: a Poisson cell is exactly PoissonPMF(i; lambda_h) * PoissonPMF(j;
\* lambda_a), whatever K: the grid for K' <= K is the top-left block of the grid
\* for K.  A Dixon-Coles cell is rescaled by the grid total and changes with K.
C18_PoissonNotNormalized ==
    BuiltValid =>
        LET lh == home_expected_goals
            la == away_expected_goals
        IN  IF ~use_dixon_coles
            THEN /\ \A c \in Cells(max_goals) :
                        Cell(prob_base, c[1], c[2])
                            = RMul(PoissonPmf(c[1], lh), PoissonPmf(c[2], la))
                 /\ \A k \in 0 .. max_goals : \A c \in Cells(k) :
                        Cell(calculate_poisson_probabilities(lh, la, k), c[1], c[2])
                            = Cell(prob_base, c[1], c[2])
            ELSE (/\ max_goals >= 1
                  /\ RLe(<<-1, 5>>, rho) /\ RLe(rho, Zero)
                  /\ RLt(Zero, lh) \/ RLt(Zero, la)) =>
                     Cell(prob_base, 0, 0)
                         # Cell(calculate_dixon_coles_matrix(lh, la, max_goals - 1, rho),
                                0, 0)

C18_Witness ==
    /\ BuiltValid /\ ~use_dixon_coles
    /\ max_goals = 2
    /\ home_expected_goals = One /\ away_expected_goals = Two
    /\ RLt(GridSum(prob_base), One)
    /\ Cell(prob_base, 1, 1)
           = Cell(calculate_poisson_probabilities(One, Two, 1), 1, 1)
    /\ Cell(prob_base, 1, 1) = RMul(PoissonPmf(1, One), PoissonPmf(1, Two))

\* C19: both builders reject a negative rate and a negative max_goals with
\* InvalidInput: no grid, empty or NaN-filled, is returned for such input.
C19_InvalidInputRejected ==
    (/\ pc \in {"built", "failed"}
     /\ \/ RLt(home_expected_goals, Zero)
        \/ RLt(away_expected_goals, Zero)
        \/ max_goals < 0) =>
        (pc = "failed" /\ raised = "InvalidInput")

-----------------------------------------------------------------------------
(* Properties of the stake loop and of the summary, under SpecPipeline      *)

\* the odd offered for market m
OddOf(mo, m) == mo[CHOOSE k \in 1 .. Len(mo) : mo[k][1] = m][2]

\* C20: the expected value of a market is p * o, and the market is listed as a
\* value bet if and only if that value is strictly greater than 1: an expected
\* value of exactly 1 is not a value bet.
C20_ValueBetStrict ==
    pc = "summary" =>
        /\ DOMAIN value_bets \subseteq DOMAIN market_ev
        /\ \A m \in DOMAIN market_ev :
               /\ market_ev[m] = RMul(market_probs[m], OddOf(market_odds, m))
               /\ (m \in DOMAIN value_bets) <=> RLt(One, market_ev[m])
               /\ market_ev[m] = One => m \notin DOMAIN value_bets
               /\ m \in DOMAIN value_bets => value_bets[m] = market_ev[m]

C20_Witness ==
    /\ pc = "summary"
    /\ DOMAIN market_ev = {"1", "X"}
    /\ market_probs["1"] = Half /\ market_ev["1"] = One
    /\ market_ev["X"] = <<3, 2>>
    /\ DOMAIN value_bets = {"X"}

-----------------------------------------------------------------------------
(* Error handling of the staking engine, under SpecKelly and SpecPipeline   *)

\* C21: a probability p < 0 or p > 1 is rejected with InvalidInput: neither
\* calculate_expected_value nor calculate_kelly_criterion returns a figure
\* for it.
C21_InvalidProbability ==
    LET outside == RLt(probability, Zero) \/ RLt(One, probability)
    IN  /\ (pc = "kelly" /\ outside) => kelly.kind = "InvalidInput"
        /\ (pc = "ev" /\ outside) => expected_value.kind = "InvalidInput"

\* C22: in the stake loop of process_data a failure of the value/staking
\* computation for one market is confined to that market: the analysis does
\* not abort, and every other market with a valid odd that the aggregator
\* produces still gets its EV and its Kelly figure.
C22_FailureConfined ==
    (pc \in {"stakes", "failed"}) =>
        /\ pc = "stakes"
        /\ \A i \in 1 .. Len(market_odds) :
               (market_odds[i][1] \in DOMAIN market_probs
                    /\ RLt(One, market_odds[i][2]))
               => /\ market_odds[i][1] \in DOMAIN market_ev
                  /\ market_odds[i][1] \in DOMAIN kelly_stakes

-----------------------------------------------------------------------------
(* Further properties of the aggregator, under Spec                         *)

NonNegative(g) == \A c \in Cells(MaxGols(g)) : RLe(Zero, Cell(g, c[1], c[2]))

\* C23: for every grid with non-negative cells and total mass <= 1, normalized
\* or not, every value of the mapping calculate_market_probabilities returns
\* lies in [0,1].
C23_MarketsInUnitInterval ==
    (pc = "markets" /\ NonNegative(prob_matrix) /\ RLe(Mass(prob_matrix), One)) =>
        \A m \in DOMAIN market_probs :
            RLe(Zero, market_probs[m]) /\ RLe(market_probs[m], One)

C23_Witness ==
    /\ pc = "markets"
    /\ NonNegative(prob_matrix) /\ RLt(Mass(prob_matrix), One)
    /\ RLt(Zero, market_probs["Under 0.5"])
    /\ RLt(market_probs["Under 0.5"], market_probs["Under 1.5"])
    /\ RLt(market_probs["Under 1.5"], One)
    /\ RLt(market_probs["Ambas Marcam Não"], One)
    /\ market_probs["Under 4.5"] = One

-----------------------------------------------------------------------------
(* Further properties of the blender, under SpecBlend                       *)

\* C24: re-normalization is idempotent: adjust_probabilities_with_history with
\* an empty history, or with weight 0, applied to a grid of mass 1 returns
\* that grid, and applied a second time to any grid of positive mass it gives
\* what one application gave.
C24_RenormalizationIdempotent ==
    (Adjusted /\ (Len(historical_results) = 0 \/ weight = Zero)) =>
        /\ Mass(prob_base) = One => prob_matrix = prob_base
        /\ RLt(Zero, Mass(prob_base)) =>
               adjust_probabilities_with_history(prob_matrix, historical_results,
                                                 weight, max_goals) = prob_matrix

-----------------------------------------------------------------------------
(* Frame of the core operations, under SpecOrder                            *)

-----------------------------------------------------------------------------
(* Further properties of the staking engine, under SpecKelly                *)

\* C26: for p in [0,1], o > 1 and fraction in (0,1] the stake
\* calculate_kelly_criterion returns is a bankroll fraction in [0,1], also for
\* odds between 1 and 2: never more than the whole bankroll.
C26_StakeWithinBankroll ==
    KellyValid =>
        /\ kelly.kind = "return"
        /\ RLe(Zero, kelly.value)
        /\ RLe(kelly.value, One)

\* C27: for p in [0,1], o > 1 and fraction in (0,1] the stake
\* calculate_kelly_criterion returns is strictly positive if and only if
\* calculate_expected_value(p, o) > 1.
C27_PositiveStakeIffValue ==
    KellyValid =>
        /\ kelly.kind = "return"
        /\ RLt(Zero, kelly.value)
               <=> RLt(One, calculate_expected_value(probability, odd))

C27_Witness ==
    /\ KellyValid
    /\ probability = <<9, 10>> /\ odd = <<3, 2>> /\ fraction = <<1, 10>>
    /\ RLt(Zero, kelly.value)
    /\ calculate_expected_value(probability, odd) = <<27, 20>>

-----------------------------------------------------------------------------
(* Properties of the grid process_data hands on, under Spec                 *)

ResultMarkets(mp) == RAdd(RAdd(mp["1"], mp["X"]), mp["2"])

\* C28: in process_data the grid handed to the aggregator and the ranker has
\* total mass 1 whenever Dixon-Coles mode is on or at least one historical
\* result was parsed (the blender runs only on a non-empty history); a grid of
\* mass below 1, with '1' + 'X' + '2' below 1, comes only from Poisson mode
\* with no history.
C28_MassOneUnlessPlainPoisson ==
    /\ pc = "adjusted" =>
           /\ Len(historical_results) > 0
           /\ Mass(prob_matrix) = One
    /\ (pc = "built" /\ use_dixon_coles) => Mass(prob_matrix) = One
    /\ pc = "markets" =>
           /\ use_dixon_coles => Mass(prob_matrix) = One
           /\ prob_matrix # prob_base => Mass(prob_matrix) = One
           /\ (Mass(prob_matrix) # One \/ ResultMarkets(market_probs) # One) =>
                  /\ ~use_dixon_coles /\ prob_matrix = prob_base
                  /\ RLt(Mass(prob_matrix), One)
                  /\ RLt(ResultMarkets(market_probs), One)

C28_Witness ==
    /\ pc = "markets"
    /\ ~use_dixon_coles /\ prob_matrix # prob_base
    /\ RLt(Mass(prob_base), One)
    /\ Mass(prob_matrix) = One
    /\ ResultMarkets(market_probs) = One

UnderCells(l, i, j) == 2 * (i + j) < l
NoGoalSide(i, j) == i = 0 \/ j = 0

\* C29, as claimed: for every grid the analysis hands to the aggregator,
\* 'Under L' is the total probability of the cells with i + j < L and 'Ambas
\* Marcam Não' the total probability of the cells with i = 0 or j = 0.
C29_ComplementIsOwnMass ==
    pc = "markets" =>
        /\ \A l \in Limites :
               market_probs[UnderKey(l)]
                   = MaskedMass(prob_matrix, LAMBDA i, j : UnderCells(l[1], i, j))
        /\ market_probs["Ambas Marcam Não"] = MaskedMass(prob_matrix, NoGoalSide)

\* C29, amended: 'Under L' is the total probability of the cells with
\* i + j < L plus the mass the grid lacks to 1, and 'Ambas Marcam Não' the
\* total probability of the cells with i = 0 or j = 0 plus that same missing
\* mass; each equals the mass of its own scorelines exactly when the grid's
\* mass is 1, as for every Dixon-Coles or blended grid.
C29_ComplementPlusMissingMass ==
    pc = "markets" =>
        LET missing == RSub(One, Mass(prob_matrix))
            nao == MaskedMass(prob_matrix, NoGoalSide)
        IN  /\ \A l \in Limites :
                   market_probs[UnderKey(l)]
                       = RAdd(MaskedMass(prob_matrix,
                                         LAMBDA i, j : UnderCells(l[1], i, j)),
                              missing)
            /\ market_probs["Ambas Marcam Não"] = RAdd(nao, missing)
            /\ (market_probs["Ambas Marcam Não"] = nao) <=> (missing = Zero)
            /\ (use_dixon_coles \/ prob_matrix # prob_base) => missing = Zero

C29_Witness ==
    /\ pc = "markets"
    /\ ~use_dixon_coles /\ prob_matrix = prob_base /\ max_goals = 1
    /\ RLt(Mass(prob_matrix), One)
    /\ RLt(MaskedMass(prob_matrix, NoGoalSide),
           market_probs["Ambas Marcam Não"])
    /\ RLt(MaskedMass(prob_matrix, LAMBDA i, j : UnderCells(3, i, j)),
           market_probs["Under 1.5"])

-----------------------------------------------------------------------------
(* Further properties of the stake loop, under SpecPipeline                 *)

OfferedMarkets == {market_odds[i][1] : i \in 1 .. Len(market_odds)}

\* C30: after the stake loop of process_data market_ev and kelly_stakes have
\* the same keys, exactly the markets present both in the odds table and in
\* the market-probability mapping: a market with no offered odd, or an odd for
\* a name the aggregator does not produce, gets no EV and no Kelly figure.
C30_SameKeys ==
    (pc \in {"stakes", "summary"}) =>
        /\ DOMAIN market_ev = DOMAIN kelly_stakes
        /\ DOMAIN market_ev = OfferedMarkets \cap DOMAIN market_probs
        /\ "Handicap" \notin DOMAIN market_ev
        /\ "2" \in DOMAIN market_ev => "2" \in OfferedMarkets

C30_Witness ==
    /\ pc = "stakes"
    /\ OfferedMarkets = {"1", "X", "Handicap"}
    /\ DOMAIN market_ev = {"1", "X"}
    /\ DOMAIN kelly_stakes = {"1", "X"}
    /\ kelly_stakes["X"] = Zero
    /\ RLt(Zero, kelly_stakes["1"])

====
